---- MODULE Spec2Model ----
(***************************************************************************)
(* Model of src/cocotb/share/lib/embed/gpi_embed.cpp: the bridge that      *)
(* embeds the Python interpreter in a simulator.  The host calls the four  *)
(* exported entry points in any order:                                     *)
(*   boot    = _embed_init_python                                          *)
(*   start   = _embed_sim_init                                             *)
(*   notify  = _embed_sim_event                                            *)
(*   cleanup = _embed_sim_cleanup                                          *)
(* Each entry point is one action.  A handler is an operator that threads  *)
(* a record of the program state through the statements of the function,   *)
(* in source order, and logs every call it makes in `steps`.               *)
(***************************************************************************)
EXTENDS Integers, Sequences, FiniteSets, TLC

\* ---------------------------------------------------------------- bounds
\* number of host calls in one process lifetime
MaxCalls == 4
\* largest argc the host passes to _embed_sim_init
MaxArgc == 2
\* scaled PATH_MAX: number of wchar_t cells of interpreter_path
PathMax == 3
\* scaled UINT_MAX and ULONG_MAX for the COCOTB_ATTACH parse
UIntMax == 20
ULongMax == 50

\* An optional C string: NULL is the empty tuple, a string s is <<s>>.
NULL == <<>>
Some(v) == <<v>>

VARIABLES
    gtstate,            \* static PyThreadState *gtstate, as "is it non-NULL"
    pEventFn,           \* static PyObject *pEventFn, as "is it non-NULL"
    is_python_context,  \* the execution token: 0 = host, 1 = interpreter
    pyState,            \* the embedded runtime: what Py_IsInitialized reports
    logHandlers,        \* Logging Bridge holds the log/filter callables
    logLevel,           \* level given to py_gpi_logger_set_level
    proc,               \* "alive", or why the process makes no more steps
    op,                 \* the last host call
    args,               \* its inputs
    ret,                \* its return value: Some(v), or NULL (void, or no return)
    steps,              \* the calls it made, each with the token holder
    msgs,               \* texts it passed to the event hook
    slept,              \* seconds it slept in the attach wait
    argv_list,          \* the argument list it built for the main entry
    mainArgs,           \* Some(list) it passed to the main entry, or NULL
    nCalls,             \* host calls so far
    nBootSeq,           \* boot sequences entered (past the assert)
    nPyInit,            \* times the runtime was booted
    nFinalize,          \* times the runtime was shut down
    nRelease,           \* times a retained event hook was released
    nLoggerInit,        \* registrations with the Logging Bridge
    nMain,              \* invocations of the main entry
    mainOk              \* a main-entry invocation returned without error

vars == <<gtstate, pEventFn, is_python_context, pyState, logHandlers, logLevel,
          proc, op, args, ret, steps, msgs, slept, argv_list, mainArgs,
          nCalls, nBootSeq, nPyInit, nFinalize, nRelease, nLoggerInit,
          nMain, mainOk>>

\* The program state as one record, so that a handler can thread it.
State ==
    [gtstate |-> gtstate, pEventFn |-> pEventFn,
     is_python_context |-> is_python_context, pyState |-> pyState,
     logHandlers |-> logHandlers, logLevel |-> logLevel, proc |-> proc,
     op |-> op, args |-> args, ret |-> ret, steps |-> steps, msgs |-> msgs,
     slept |-> slept, argv_list |-> argv_list, mainArgs |-> mainArgs,
     nCalls |-> nCalls, nBootSeq |-> nBootSeq,
     nPyInit |-> nPyInit, nFinalize |-> nFinalize, nRelease |-> nRelease,
     nLoggerInit |-> nLoggerInit, nMain |-> nMain, mainOk |-> mainOk]

Commit(r) ==
    /\ gtstate' = r.gtstate
    /\ pEventFn' = r.pEventFn
    /\ is_python_context' = r.is_python_context
    /\ pyState' = r.pyState
    /\ logHandlers' = r.logHandlers
    /\ logLevel' = r.logLevel
    /\ proc' = r.proc
    /\ op' = r.op
    /\ args' = r.args
    /\ ret' = r.ret
    /\ steps' = r.steps
    /\ msgs' = r.msgs
    /\ slept' = r.slept
    /\ argv_list' = r.argv_list
    /\ mainArgs' = r.mainArgs
    /\ nCalls' = r.nCalls
    /\ nBootSeq' = r.nBootSeq
    /\ nPyInit' = r.nPyInit
    /\ nFinalize' = r.nFinalize
    /\ nRelease' = r.nRelease
    /\ nLoggerInit' = r.nLoggerInit
    /\ nMain' = r.nMain
    /\ mainOk' = r.mainOk

\* ------------------------------------------------------- statement helpers
Alive(s) == s.proc = "alive"

\* one call made by a handler, with the holder of the token at that moment
Log(s, c) ==
    IF Alive(s)
    THEN [s EXCEPT !.steps = Append(@, [call |-> c, tok |-> s.is_python_context])]
    ELSE s

\* The host enters a handler: the per-call record is reset.
Enter(s, name, in) ==
    [s EXCEPT !.op = name, !.args = in, !.ret = NULL, !.steps = <<>>,
              !.msgs = <<>>, !.slept = 0, !.argv_list = <<>>,
              !.mainArgs = NULL, !.nCalls = @ + 1]

\* return from a handler: Some(v) from an int function, void otherwise
Return(s, v) == IF Alive(s) THEN [s EXCEPT !.ret = v] ELSE s
void == NULL

\* to_python(): hand the token to the interpreter.  Acquiring a token the
\* interpreter side already holds never returns.
to_python(s) ==
    IF ~Alive(s) THEN s
    ELSE IF s.is_python_context = 1
         THEN [Log(s, "to_python") EXCEPT !.proc = "blocked"]
         ELSE [Log(s, "to_python") EXCEPT !.is_python_context = 1]

\* to_simulator(): hand the token back to the host.
to_simulator(s) ==
    IF ~Alive(s) THEN s
    ELSE IF s.is_python_context = 0
         THEN [Log(s, "to_simulator") EXCEPT !.proc = "blocked"]
         ELSE [Log(s, "to_simulator") EXCEPT !.is_python_context = 0]

\* A call of the Python C API that is valid in any runtime state.
PyAny(s, c) == Log(s, c)

\* A call of the Python C API that needs the booted runtime.  Without it the
\* behaviour is undefined: ub chooses between a crash and a call that comes
\* back (every later lookup then fails, there being no runtime to answer).
PyAPI(s, c, ub) ==
    IF ~Alive(s) THEN s
    ELSE IF s.pyState = "Running" \/ ub = "continue"
         THEN Log(s, c)
         ELSE [Log(s, c) EXCEPT !.proc = "crashed"]

UB == {"crash", "continue"}

\* ------------------------------------------------------------ Logging Bridge
py_gpi_logger_set_level(s, lvl) ==
    IF Alive(s) THEN [Log(s, "py_gpi_logger_set_level") EXCEPT !.logLevel = lvl]
    ELSE s

py_gpi_logger_initialize(s) ==
    IF Alive(s)
    THEN [Log(s, "py_gpi_logger_initialize") EXCEPT
             !.logHandlers = TRUE, !.nLoggerInit = @ + 1]
    ELSE s

py_gpi_logger_finalize(s) ==
    IF Alive(s)
    THEN [Log(s, "py_gpi_logger_finalize") EXCEPT !.logHandlers = FALSE]
    ELSE s

\* ------------------------------------------------------- _embed_sim_cleanup
\* Py_DecRef(pEventFn); pEventFn = NULL;   (Py_DecRef accepts NULL)
ReleaseEventFn(s) ==
    IF Alive(s)
    THEN [Log(s, "Py_DecRef") EXCEPT
             !.nRelease = IF s.pEventFn THEN @ + 1 ELSE @,
             !.pEventFn = FALSE]
    ELSE s

Py_Finalize(s) ==
    IF Alive(s)
    THEN [Log(s, "Py_Finalize") EXCEPT
             !.pyState = "Finalized", !.nFinalize = @ + 1]
    ELSE s

\* a teardown that shuts the runtime down before releasing the hook
Teardown_finalizefirst(s) ==
    LET s1 == to_python(s)
        s2 == PyAPI(s1, "PyGILState_Ensure", "crash")
        s3 == Py_Finalize(s2)
        s4 == ReleaseEventFn(s3)
        s5 == py_gpi_logger_finalize(s4)
        s6 == to_simulator(s5)
    IN Return(s6, void)

\* the body of the if, lines 246-252
Teardown(s) ==
    LET s1 == to_python(s)
        s2 == PyAPI(s1, "PyGILState_Ensure", "crash")
        s3 == ReleaseEventFn(s2)
        s4 == py_gpi_logger_finalize(s3)
        s5 == Py_Finalize(s4)
        s6 == to_simulator(s5)
    IN Return(s6, void)

\* a cleanup that tears down without asking Py_IsInitialized
embed_sim_cleanup_unguarded(s0) == Teardown(s0)

embed_sim_cleanup(s0) ==
    LET s == PyAny(s0, "Py_IsInitialized") IN
    IF s.pyState = "Running" THEN Teardown(s) ELSE Return(s, void)

\* --------------------------------------------------------- _embed_sim_event
Messages == {NULL, Some("sim_finish"), Some("")}

CallEventFn(s, text, ub) ==
    IF Alive(s)
    THEN [PyAPI(s, "PyObject_CallFunction", ub) EXCEPT !.msgs = Append(@, text)]
    ELSE s

\* a forward that passes an absent message on as the empty text
ForwardEvent_nodefault(s, msg, hookOk, ub) ==
    LET s1 == to_python(s)
        s2 == PyAPI(s1, "PyGILState_Ensure", ub)
        text == IF msg = NULL THEN "" ELSE msg[1]
        s3 == CallEventFn(s2, text, ub)
        s4 == IF hookOk THEN s3
              ELSE Log(PyAPI(s3, "PyErr_Print", ub), "LOG_ERROR")
        s5 == PyAPI(s4, "Py_XDECREF", ub)
        s6 == PyAPI(s5, "PyGILState_Release", ub)
        s7 == to_simulator(s6)
    IN Return(s7, void)

\* a forward that returns at once when the hook call fails
ForwardEvent_earlyreturn(s, msg, hookOk, ub) ==
    LET s1 == to_python(s)
        s2 == PyAPI(s1, "PyGILState_Ensure", ub)
        text == IF msg = NULL THEN "No message provided" ELSE msg[1]
        s3 == CallEventFn(s2, text, ub)
    IN IF hookOk
       THEN Return(to_simulator(PyAPI(PyAPI(s3, "Py_XDECREF", ub),
                                      "PyGILState_Release", ub)), void)
       ELSE Return(Log(PyAPI(s3, "PyErr_Print", ub), "LOG_ERROR"), void)

\* the body of the if, lines 368-383
ForwardEvent(s, msg, hookOk, ub) ==
    LET s1 == to_python(s)
        s2 == PyAPI(s1, "PyGILState_Ensure", ub)
        text == IF msg = NULL THEN "No message provided" ELSE msg[1]
        s3 == CallEventFn(s2, text, ub)
        s4 == IF hookOk THEN s3
              ELSE Log(PyAPI(s3, "PyErr_Print", ub), "LOG_ERROR")
        s5 == PyAPI(s4, "Py_XDECREF", ub)
        s6 == PyAPI(s5, "PyGILState_Release", ub)
        s7 == to_simulator(s6)
    IN Return(s7, void)

\* a notify that forwards without testing pEventFn
embed_sim_event_unguarded(s, msg, hookOk, ub) == ForwardEvent(s, msg, hookOk, ub)

embed_sim_event(s, msg, hookOk, ub) ==
    IF s.pEventFn THEN ForwardEvent(s, msg, hookOk, ub) ELSE Return(s, void)

\* -------------------------------------------------------- _embed_init_python
\* keys of logStrToLevel
logStrToLevel == {"CRITICAL", "ERROR", "WARNING", "INFO", "DEBUG", "TRACE"}

LogLevelEnv == {NULL, Some("INFO"), Some("TRACE"), Some("info")}

\* PYTHON_BIN: absent, or a path of n characters
Path(n) == [i \in 1..n |-> "c"]
PythonBinEnv == {NULL, Some(Path(1)), Some(Path(PathMax - 1)), Some(Path(PathMax))}

\* wcsncpy(path, src, n): the first n cells of src, padded with zeros
wcsncpy(src, n) == [i \in 1..n |-> IF i <= Len(src) THEN src[i] ELSE "0"]

\* get_interpreter_path: <<state, return value>>
get_interpreter_path(s0, decodeOk) ==
    LET path_c == s0.args.PYTHON_BIN IN
    IF path_c = NULL
    THEN <<Log(s0, "LOG_INFO"), -1>>
    ELSE LET s1 == PyAny(s0, "Py_DecodeLocale") IN
         IF ~decodeOk
         THEN <<Log(Log(s1, "LOG_ERROR"), "LOG_INFO"), -1>>
         ELSE LET path == wcsncpy(path_c[1], PathMax)
                  s2 == PyAny(s1, "PyMem_RawFree")
              IN IF path[PathMax] # "0"
                 THEN <<PyAny(Log(Log(s1, "LOG_ERROR"), "LOG_INFO"),
                              "PyMem_RawFree"), -1>>
                 ELSE <<s2, 0>>

\* COCOTB_ATTACH values: strings over the digits and one other character
Digits == {"0", "1", "2", "3", "4", "5", "6", "7", "8", "9"}
DigitVal(c) ==
    CASE c = "0" -> 0 [] c = "1" -> 1 [] c = "2" -> 2 [] c = "3" -> 3
      [] c = "4" -> 4 [] c = "5" -> 5 [] c = "6" -> 6 [] c = "7" -> 7
      [] c = "8" -> 8 [] c = "9" -> 9

AttachEnv ==
    {NULL, Some(<<"0">>), Some(<<"2">>), Some(<<"x">>), Some(<<"2", "x">>),
     Some(<<"2", "0">>), Some(<<"9", "9">>)}

\* strtoul(str, NULL, 10): the leading digits, saturating at ULONG_MAX with
\* errno = ERANGE; errno is left as it was when nothing goes out of range.
RECURSIVE strtoulFrom(_, _, _, _)
strtoulFrom(str, i, acc, over) ==
    IF i > Len(str) \/ str[i] \notin Digits
    THEN [val |-> IF over THEN ULongMax ELSE acc, erange |-> over]
    ELSE LET v == acc * 10 + DigitVal(str[i]) IN
         IF over \/ v > ULongMax
         THEN strtoulFrom(str, i + 1, ULongMax, TRUE)
         ELSE strtoulFrom(str, i + 1, v, FALSE)

strtoul(str) == strtoulFrom(str, 1, 0, FALSE)

\* errno values the parse can find: 0, ERANGE, or some other leftover
Errnos == {"0", "ERANGE", "EOTHER"}

\* outcome of the interpreter start-up calls
BootFails == {"none", "decode", "setargv", "init"}
\* outcome of the sys.executable check
SysExes == {"match", "null", "convfail", "mismatch"}

Py_Initialize(s) ==
    IF Alive(s)
    THEN [Log(s, "Py_InitializeFromConfig") EXCEPT
             !.pyState = "Running", !.nPyInit = @ + 1]
    ELSE s

PyEval_SaveThread(s) ==
    IF Alive(s)
    THEN [Log(s, "PyEval_SaveThread") EXCEPT !.gtstate = TRUE]
    ELSE s

getenv(s, name, val) ==
    IF Alive(s) THEN [s EXCEPT !.args = [@ EXCEPT ![name] = val]] ELSE s

sleep(s, n) ==
    IF Alive(s) THEN [Log(s, "sleep") EXCEPT !.slept = n] ELSE s

\* the attach wait, lines 205-225
AttachWait(s0, env, errno0) ==
    LET s == getenv(s0, "COCOTB_ATTACH", env.COCOTB_ATTACH)
        pause == env.COCOTB_ATTACH
    IN IF pause = NULL THEN s
       ELSE LET r == strtoul(pause[1])
                sleep_time == r.val
                errno == IF r.erange THEN "ERANGE" ELSE errno0
            IN IF errno = "ERANGE" \/ sleep_time >= UIntMax
               THEN Log(s, "LOG_ERROR")
               ELSE IF (errno # "0" /\ sleep_time = 0) \/ sleep_time <= 0
                    THEN Log(s, "LOG_ERROR")
                    ELSE sleep(Log(s, "LOG_ERROR"), sleep_time)

\* the sys.executable sanity check, lines 187-197
SanityCheck(s0, sysExe) ==
    LET s1 == PyAny(s0, "PySys_GetObject") IN
    IF sysExe = "null" THEN Log(s1, "LOG_ERROR")
    ELSE LET s2 == PyAny(s1, "PyUnicode_AsWideChar") IN
         IF sysExe = "convfail" THEN Log(s2, "LOG_ERROR")
         ELSE IF sysExe = "mismatch" THEN Log(s2, "LOG_ERROR")
         ELSE s2

NoEnv ==
    [COCOTB_LOG_LEVEL |-> Some("unread"), PYTHON_BIN |-> Some(<<"unread">>),
     COCOTB_ATTACH |-> Some(<<"unread">>)]

\* a level setting that passes any value on to the logger
SetLogLevel_anyvalue(s, env) ==
    LET sb == getenv(s, "COCOTB_LOG_LEVEL", env.COCOTB_LOG_LEVEL)
        log_level == env.COCOTB_LOG_LEVEL
    IN IF log_level = NULL THEN sb
       ELSE py_gpi_logger_set_level(sb, log_level[1])

\* lines 118-130: the verbosity level
SetLogLevel(s, env) ==
    LET sb == getenv(s, "COCOTB_LOG_LEVEL", env.COCOTB_LOG_LEVEL)
        log_level == env.COCOTB_LOG_LEVEL
    IN IF log_level = NULL THEN sb
       ELSE IF log_level[1] \in logStrToLevel
            THEN py_gpi_logger_set_level(sb, log_level[1])
            ELSE Log(sb, "LOG_ERROR")

\* lines 118-225: the boot sequence after the assert
BootSeq(s0, env, fail, sysExe, errno0) ==
    LET sa == [s0 EXCEPT !.nBootSeq = @ + 1]
        s1 == SetLogLevel(sa, env)
        s2 == to_python(s1)
        s3 == getenv(s2, "PYTHON_BIN", env.PYTHON_BIN)
        gip == get_interpreter_path(s3, fail # "decode")
    IN IF gip[2] # 0 THEN Return(gip[1], void)
       ELSE
       LET s4 == PyAny(Log(gip[1], "LOG_INFO"), "PyConfig_InitPythonConfig")
           s5 == PyAny(s4, "PyConfig_SetString")
           s6 == PyAny(s5, "PyConfig_SetArgv")
       IN IF fail = "setargv"
          THEN Return(PyAny(Log(s6, "LOG_ERROR"), "PyConfig_Clear"), void)
          ELSE IF fail = "init"
          THEN Return(PyAny(Log(PyAny(s6, "Py_InitializeFromConfig"),
                                "LOG_ERROR"), "PyConfig_Clear"), void)
          ELSE
          LET s7 == Py_Initialize(s6)
              s8 == PyAny(s7, "PyConfig_Clear")
              s9 == SanityCheck(s8, sysExe)
              s10 == PyEval_SaveThread(s9)
              s11 == to_simulator(s10)
              s12 == AttachWait(s11, env, errno0)
          IN Return(s12, void)

\* a boot without the assert of line 116
embed_init_python_noassert(s0, env, fail, sysExe, errno0) ==
    BootSeq(s0, env, fail, sysExe, errno0)

embed_init_python(s0, env, fail, sysExe, errno0) ==
    IF s0.gtstate
    THEN [s0 EXCEPT !.proc = "asserted"]
    ELSE BootSeq(s0, env, fail, sysExe, errno0)

\* ----------------------------------------------------------- _embed_sim_init
\* Where the first failing call of a start is: one of the named calls, or
\* the index i of the argument whose PyUnicode_DecodeLocale fails.
FailPoints ==
    {"none", "import", "load_entry", "parse", "log", "filter", "event",
     "list", "call"}
DecodeFails == {"decode0", "decode1", "decode2"}
DecodeIdx(f) == CASE f = "decode0" -> 0 [] f = "decode1" -> 1
                  [] f = "decode2" -> 2 [] OTHER -> -1

\* The scope guards DEFER registers, in registration order.  At a return the
\* guards registered so far run last-registered first.
Defers ==
    <<"PyGILState_Release", "to_simulator", "Py_DECREF", "Py_DECREF",
      "Py_DECREF", "Py_DECREF", "Py_DECREF">>

RECURSIVE Unwind(_, _, _)
Unwind(s, k, ub) ==
    IF k = 0 THEN s
    ELSE Unwind(IF Defers[k] = "to_simulator" THEN to_simulator(s)
                ELSE PyAPI(s, Defers[k], ub), k - 1, ub)

\* an error return that runs none of the registered guards
Fail_nounwind(s, k, ub) == Return(PyAPI(s, "PyErr_Print", ub), Some(-1))

\* an error return: PyErr_Print(); return -1; with k guards registered
Fail(s, k, ub) == Return(Unwind(PyAPI(s, "PyErr_Print", ub), k, ub), Some(-1))

\* pEventFn = PyObject_GetAttrString(entry_module, "_sim_event");
GetEventFn(s, found, ub) ==
    IF Alive(s)
    THEN [PyAPI(s, "PyObject_GetAttrString", ub) EXCEPT !.pEventFn = found]
    ELSE s

\* The host's argument strings are byte strings; the locale is UTF-8.
\* 65 is 'A'; 195 169 is a two-byte character; a lone 195 or 169 cannot be
\* decoded.
ArgStrings == {<<>>, <<65>>, <<195, 169>>, <<195>>, <<169, 65>>}
ArgVectors ==
    UNION {[1..n -> ArgStrings] : n \in 0..MaxArgc}

\* PyUnicode_DecodeLocale(str, "surrogateescape"): the code points of str;
\* a byte b that cannot be decoded becomes the lone surrogate U+DC00 + b
\* (PEP 383).
RECURSIVE DecodeLocaleFrom(_, _)
DecodeLocaleFrom(str, i) ==
    IF i > Len(str) THEN <<>>
    ELSE LET b == str[i] IN
         IF b < 128 THEN <<b>> \o DecodeLocaleFrom(str, i + 1)
         ELSE IF /\ b \in 194..223 /\ i < Len(str)
                 /\ str[i + 1] \in 128..191
              THEN <<(b - 192) * 64 + (str[i + 1] - 128)>>
                       \o DecodeLocaleFrom(str, i + 2)
              ELSE <<56320 + b>> \o DecodeLocaleFrom(str, i + 1)

PyUnicode_DecodeLocale(str) == DecodeLocaleFrom(str, 1)

\* PyList_New(argc): a list of argc empty slots
PyList_New(s, argc, ub) ==
    IF Alive(s)
    THEN [PyAPI(s, "PyList_New", ub) EXCEPT
             !.argv_list = [i \in 1..argc |-> NULL]]
    ELSE s

\* PyList_SetItem(argv_list, i, argv_item), i counted from 0
PyList_SetItem(s, i, item, ub) ==
    IF Alive(s)
    THEN [PyAPI(s, "PyList_SetItem", ub) EXCEPT
             !.argv_list = [@ EXCEPT ![i + 1] = Some(item)]]
    ELSE s

\* a loop that decodes _argv[0] for every slot
RECURSIVE DecodeArgs_first(_, _, _, _, _)
DecodeArgs_first(s, i, argc, bad, ub) ==
    IF i >= argc THEN s
    ELSE LET s1 == PyAPI(s, "PyUnicode_DecodeLocale", ub)
             argv_item == PyUnicode_DecodeLocale(s.args.argv[1])
         IN IF i = bad THEN s1
            ELSE DecodeArgs_first(PyList_SetItem(s1, i, argv_item, ub),
                                  i + 1, argc, bad, ub)

\* the loop of lines 337-348: decode arguments i..argc-1, stopping at bad
RECURSIVE DecodeArgs(_, _, _, _, _)
DecodeArgs(s, i, argc, bad, ub) ==
    IF i >= argc THEN s
    ELSE LET s1 == PyAPI(s, "PyUnicode_DecodeLocale", ub)
             argv_item == PyUnicode_DecodeLocale(s.args.argv[i + 1])
         IN IF i = bad THEN s1
            ELSE DecodeArgs(PyList_SetItem(s1, i, argv_item, ub),
                            i + 1, argc, bad, ub)

\* PyObject_CallFunctionObjArgs(entry_point, argv_list, NULL)
CallMain(s, ok, ub) ==
    IF Alive(s)
    THEN [PyAPI(s, "PyObject_CallFunctionObjArgs", ub) EXCEPT
             !.nMain = @ + 1, !.mainOk = @ \/ ok,
             !.mainArgs = Some(s.argv_list)]
    ELSE s

\* lines 263-361: the start sequence proper
RunStart(s0, argc, failAt, ub) ==
    LET \* without a booted runtime no module can be found
        f == IF s0.pyState = "Running" THEN failAt ELSE "import"
        s1 == PyAPI(s0, "PyGILState_Ensure", ub)
        s2 == to_python(s1)
        s3 == PyAPI(s2, "PyImport_ImportModule", ub)
    IN IF f = "import" THEN Fail(s3, 2, ub) ELSE
    LET s4 == PyAPI(s3, "PyObject_CallMethod", ub)
    IN IF f = "load_entry" THEN Fail(s4, 3, ub) ELSE
    LET s5 == PyAPI(s4, "PyArg_ParseTuple", ub)
    IN IF f = "parse" THEN Fail(s5, 4, ub) ELSE
    LET s6 == PyAPI(s5, "PyObject_GetAttrString", ub)
    IN IF f = "log" THEN Fail(s6, 4, ub) ELSE
    LET s7 == PyAPI(s6, "PyObject_GetAttrString", ub)
    IN IF f = "filter" THEN Fail(s7, 5, ub) ELSE
    LET s8 == py_gpi_logger_initialize(s7)
        s9 == GetEventFn(s8, f # "event", ub)
    IN IF ~s9.pEventFn THEN Fail(s9, 6, ub) ELSE
    LET s10 == PyList_New(s9, argc, ub)
    IN IF f = "list" THEN Fail(s10, 6, ub) ELSE
    LET bad == DecodeIdx(f)
        s11 == DecodeArgs(s10, 0, argc, bad, ub)
    IN IF bad >= 0 /\ bad < argc THEN Fail(s11, 6, ub) ELSE
    LET s12 == CallMain(s11, f # "call", ub)
    IN IF f = "call" THEN Fail(s12, 7, ub) ELSE
    Return(Unwind(PyAPI(s12, "Py_DECREF", ub), 7, ub), Some(0))

\* a start without the "already initialized" check of line 259
embed_sim_init_unguarded(s0, argc, failAt, ub) == RunStart(s0, argc, failAt, ub)

\* a start that makes the check only after taking the GIL and the token
embed_sim_init_latecheck(s0, argc, failAt, ub) ==
    IF s0.pEventFn
    THEN Return(Unwind(to_python(PyAPI(s0, "PyGILState_Ensure", ub)), 2, ub),
                Some(0))
    ELSE RunStart(s0, argc, failAt, ub)

embed_sim_init(s0, argc, failAt, ub) ==
    IF s0.pEventFn THEN Return(s0, Some(0))
    ELSE RunStart(s0, argc, failAt, ub)

\* ------------------------------------------------------------ the host calls
Init ==
    /\ gtstate = FALSE
    /\ pEventFn = FALSE
    /\ is_python_context = 0
    /\ pyState = "Uninitialized"
    /\ logHandlers = FALSE
    /\ logLevel = "default"
    /\ proc = "alive"
    /\ op = "none"
    /\ args = <<>>
    /\ ret = NULL
    /\ steps = <<>>
    /\ msgs = <<>>
    /\ slept = 0
    /\ argv_list = <<>>
    /\ mainArgs = NULL
    /\ nCalls = 0
    /\ nBootSeq = 0
    /\ nPyInit = 0
    /\ nFinalize = 0
    /\ nRelease = 0
    /\ nLoggerInit = 0
    /\ nMain = 0
    /\ mainOk = FALSE

CanCall == proc = "alive" /\ nCalls < MaxCalls

\* The inputs of a boot are the environment and the outcomes of the calls it
\* makes.  Inputs that a call never reads are fixed: a boot stopped by its
\* assert reads none, and a boot that returns early reads neither
\* COCOTB_ATTACH nor errno and makes no sys.executable check.
BootInputs ==
    IF gtstate
    THEN {[env |-> NoEnv, fail |-> "none", sysExe |-> "match", errno0 |-> "0"]}
    ELSE [env : [COCOTB_LOG_LEVEL : LogLevelEnv, PYTHON_BIN : PythonBinEnv,
                 COCOTB_ATTACH : {NULL}],
          fail : BootFails, sysExe : {"match"}, errno0 : {"0"}]
         \cup
         [env : [COCOTB_LOG_LEVEL : LogLevelEnv,
                 PYTHON_BIN : {b \in PythonBinEnv \ {NULL} : Len(b[1]) < PathMax},
                 COCOTB_ATTACH : AttachEnv],
          fail : {"none"}, sysExe : SysExes, errno0 : Errnos]

Boot ==
    /\ CanCall
    /\ \E in \in BootInputs :
          Commit(embed_init_python(Enter(State, "boot", NoEnv),
                                   in.env, in.fail, in.sysExe, in.errno0))

\* The inputs of a start are the arguments and the outcomes of the calls it
\* makes.  The arguments are read only by a start that gets as far as
\* building the list; a start stopped by its first check reads nothing, and
\* one without a booted runtime gets no further than the import.
StartInputs ==
    IF pEventFn
    THEN {[argv |-> <<>>, failAt |-> "none", ub |-> "crash"]}
    ELSE IF pyState # "Running"
    THEN [argv : {<<>>}, failAt : {"import"}, ub : UB]
    ELSE [argv : {<<>>}, failAt : FailPoints \ {"none", "call"},
          ub : {"crash"}]
         \cup
         [argv : ArgVectors, failAt : {"none", "call"} \cup DecodeFails,
          ub : {"crash"}]

Start ==
    /\ CanCall
    /\ \E in \in StartInputs :
          Commit(embed_sim_init(
                     Enter(State, "start",
                           [argc |-> Len(in.argv), argv |-> in.argv]),
                     Len(in.argv), in.failAt, in.ub))

Notify ==
    /\ CanCall
    /\ \E msg \in Messages, hookOk \in BOOLEAN, ub \in UB :
          Commit(embed_sim_event(Enter(State, "notify", [msg |-> msg]),
                                 msg, hookOk, ub))

Cleanup ==
    /\ CanCall
    /\ Commit(embed_sim_cleanup(Enter(State, "cleanup", <<>>)))

Next == Boot \/ Start \/ Notify \/ Cleanup

Spec == Init /\ [][Next]_vars

\* ------------------------------------------------------------------ queries
\* the Python embedding API, as opposed to logging, the token and libc
PyApiCalls ==
    {"Py_IsInitialized", "PyGILState_Ensure", "PyGILState_Release",
     "Py_DecRef", "Py_Finalize", "PyObject_CallFunction", "PyErr_Print",
     "Py_XDECREF", "Py_DECREF", "PyImport_ImportModule",
     "PyObject_CallMethod", "PyArg_ParseTuple", "PyObject_GetAttrString",
     "PyList_New", "PyUnicode_DecodeLocale", "PyList_SetItem",
     "PyObject_CallFunctionObjArgs", "Py_DecodeLocale", "PyMem_RawFree",
     "PyConfig_InitPythonConfig", "PyConfig_SetString", "PyConfig_SetArgv",
     "PyConfig_Clear", "Py_InitializeFromConfig", "PySys_GetObject",
     "PyUnicode_AsWideChar", "PyEval_SaveThread"}

\* how many times the last call made call c
Count(c) == Cardinality({i \in 1..Len(steps) : steps[i].call = c})

\* the last host call has returned to the host
Returned == op # "none" /\ proc = "alive"

\* this step is the host call `name`
Calls(name) == nCalls' = nCalls + 1 /\ op' = name

\* the state of the bridge, without the record of the last call
bridge ==
    <<gtstate, pEventFn, is_python_context, pyState, logHandlers, logLevel,
      proc, nBootSeq, nPyInit, nFinalize, nRelease, nLoggerInit, nMain, mainOk>>

\* --------------------------------------------------------------- the claims

\* C1: when a host call has returned, the token is with the host, and the
\* call made as many to_simulator() transfers as to_python() transfers.
C1_TokenBackWithHost ==
    Returned => /\ is_python_context = 0
                /\ Count("to_python") = Count("to_simulator")

\* C2: a boot that finds PYTHON_BIN absent logs a note, boots the runtime
\* with the default interpreter and returns with the interpreter Running.
C2_DefaultInterpreterBoots ==
    (Returned /\ op = "boot" /\ args.PYTHON_BIN = NULL)
        => /\ Count("LOG_INFO") >= 1
           /\ pyState = "Running"

\* C3: whatever the first boot did, a second boot is fatal: the boot
\* sequence is entered at most once in a process.
C3_SecondBootFatal == nBootSeq <= 1

\* C4: entry resolution is all-or-nothing: the Logging Bridge is never
\* registered while no event hook is retained, and a start that returns -1
\* before the argument list is built leaves neither behind.
C4_AllOrNothing ==
    /\ logHandlers => pEventFn
    /\ (Returned /\ op = "start" /\ ret = Some(-1) /\ Count("PyList_New") = 0)
           => (~logHandlers /\ ~pEventFn)

\* C5: start returns 0 only if a main-entry invocation has returned without
\* error, in this call or an earlier one.
C5_SuccessNeedsMain == (Returned /\ op = "start" /\ ret = Some(0)) => mainOk

C6_CleanupStep ==
    /\ (Calls("cleanup") /\ pyState = "Running")
          => (pyState' = "Finalized" /\ ~pEventFn' /\ proc' = "alive")
    /\ (Calls("cleanup") /\ pyState # "Running")
          => /\ steps' = <<[call |-> "Py_IsInitialized",
                            tok |-> is_python_context]>>
             /\ UNCHANGED bridge

C7_MainAtMostOnce ==
    /\ nMain <= 1
    /\ mainOk => nMain = 1
    /\ (Returned /\ op = "start" /\ ret = Some(0) /\ steps # <<>>)
           => Count("PyObject_CallFunctionObjArgs") = 1

\* a start issued after a failed main-entry call and after a cleanup
C7_Witness ==
    /\ op = "start" /\ nMain = 1 /\ ~mainOk /\ nFinalize = 1

\* C8: every embedding API call is made while the interpreter side holds the
\* token, and to_python() is never invoked while it already holds it.
C8_ApiUnderToken ==
    \A i \in 1..Len(steps) :
        /\ steps[i].call \in PyApiCalls => steps[i].tok = 1
        /\ steps[i].call = "to_python" => steps[i].tok = 0

\* C9: a notify issued while no event hook is retained calls nothing and
\* changes nothing.
C9_NotifyNoop ==
    [][(Calls("notify") /\ ~pEventFn)
          => (steps' = <<>> /\ msgs' = <<>> /\ ret' = void
              /\ UNCHANGED bridge)]_vars

\* a notify after a successful start and a cleanup
C9_Witness ==
    /\ Returned /\ op = "notify" /\ ~pEventFn /\ mainOk /\ nFinalize = 1

\* C10: a start issued in state Started (a start has run the main entry to
\* a successful return and no cleanup has shut the runtime down since)
\* returns 0 and calls and changes nothing.
C10_RepeatStartNoop ==
    [][(Calls("start") /\ mainOk /\ nFinalize = 0)
          => (ret' = Some(0) /\ steps' = <<>> /\ UNCHANGED bridge)]_vars

\* a repeated start: 0 is returned, and the main entry has run once
C10_Witness ==
    /\ Returned /\ op = "start" /\ ret = Some(0) /\ steps = <<>>
    /\ mainOk /\ nMain = 1 /\ nFinalize = 0

\* the last call was a start that returned -1 at the entry-module import
ImportFailed ==
    /\ Returned /\ op = "start" /\ ret = Some(-1)
    /\ Count("PyImport_ImportModule") = 1 /\ Count("PyObject_CallMethod") = 0

\* one step of C11: the failing start changes nothing and leaves the token
\* with the host; the notify after it calls nothing; the cleanup after it
\* finalizes the runtime
C11_Step ==
    /\ (Calls("start") /\ pyState = "Running" /\ ImportFailed')
          => /\ UNCHANGED bridge
             /\ is_python_context' = 0 /\ pyState' = "Running" /\ ~pEventFn'
             /\ Count("py_gpi_logger_initialize")' = 0
             /\ Count("PyObject_CallFunctionObjArgs")' = 0
             /\ Count("to_python")' = 1 /\ Count("to_simulator")' = 1
    /\ (ImportFailed /\ pyState = "Running" /\ Calls("notify"))
          => (steps' = <<>> /\ UNCHANGED bridge)
    /\ (ImportFailed /\ pyState = "Running" /\ Calls("cleanup"))
          => (pyState' = "Finalized" /\ proc' = "alive"
              /\ is_python_context' = 0)

\* C11: a start that cannot locate the entry module, on a Running
\* interpreter, returns -1 with no side effect: no hook retained, no
\* registration, no main-entry call, token with the host, interpreter still
\* Running; the next notify is a no-op and the next cleanup finalizes.
C11_ImportFailureNoEffect == [][C11_Step]_vars

\* a start on a Running interpreter that failed at the import
C11_Witness == ImportFailed /\ pyState = "Running"

\* one step of C12
C12_Step ==
    (Calls("notify") /\ pEventFn)
        => /\ Count("PyObject_CallFunction")' = 1
           /\ msgs' = <<IF args'.msg = NULL THEN "No message provided"
                        ELSE args'.msg[1]>>
           /\ (args'.msg = NULL => msgs'[1] # "")

\* C12: a notify issued while an event hook is retained calls the hook
\* exactly once, with the caller's message, or with "No message provided"
\* when the message is NULL.
C12_ForwardOnce == [][C12_Step]_vars

\* a notify without message was forwarded as the placeholder
C12_Witness ==
    /\ Returned /\ op = "notify" /\ args.msg = NULL
    /\ msgs = <<"No message provided">>

\* one step of C13: the two forward moves, each by its own operation, and
\* no boot of a finalized runtime
C13_Step ==
    /\ pyState' # pyState
          => \/ /\ pyState = "Uninitialized" /\ pyState' = "Running"
                /\ Calls("boot") /\ proc' = "alive" /\ gtstate'
             \/ /\ pyState = "Running" /\ pyState' = "Finalized"
                /\ Calls("cleanup")
    /\ (Calls("boot") /\ pyState = "Finalized")
          => (pyState' = "Finalized" /\ nPyInit' = nPyInit)

\* C13: InterpreterState moves Uninitialized -> Running only by a boot that
\* succeeded and Running -> Finalized only by cleanup, never back; the
\* runtime is booted at most once and shut down at most once.
C13_StateForwardOnly ==
    [][C13_Step]_vars /\ [](nPyInit <= 1 /\ nFinalize <= 1)

\* a boot issued after cleanup has finalized the runtime
C13_Witness ==
    /\ op = "boot" /\ pyState = "Finalized" /\ nFinalize = 1 /\ nPyInit = 1

\* the last call was a boot that booted the runtime
Booted ==
    /\ Returned /\ op = "boot" /\ pyState = "Running"
    /\ Count("Py_InitializeFromConfig") = 1

\* a base-10 integer, and its value
AllDigits(str) == Len(str) > 0 /\ \A i \in 1..Len(str) : str[i] \in Digits
RECURSIVE DecValue(_, _)
DecValue(str, n) ==
    IF n = 0 THEN 0 ELSE DecValue(str, n - 1) * 10 + DigitVal(str[n])

\* a valid attach-wait duration: a positive integer below UINT_MAX
ValidWait(str) ==
    AllDigits(str) /\ DecValue(str, Len(str)) \in 1..(UIntMax - 1)

\* index of the first step that made call c, 0 when there is none
Pos(c) ==
    IF Count(c) = 0 THEN 0
    ELSE CHOOSE i \in 1..Len(steps) :
            /\ steps[i].call = c
            /\ \A j \in 1..(i - 1) : steps[j].call # c

\* C14: a boot that booted the runtime with COCOTB_ATTACH set sleeps for n
\* seconds, after handing the token back, when the value is a valid
\* duration n; for any other value it logs an error, does not sleep and
\* leaves the interpreter Running and the token with the host.
C14_AttachWait ==
    (Booted /\ args.COCOTB_ATTACH # NULL)
        => LET str == args.COCOTB_ATTACH[1] IN
           /\ is_python_context = 0
           /\ IF ValidWait(str)
              THEN /\ slept = DecValue(str, Len(str))
                   /\ Count("sleep") = 1
                   /\ Pos("sleep") > Pos("to_simulator")
                   /\ Pos("to_simulator") > Pos("Py_InitializeFromConfig")
                   /\ steps[Pos("sleep")].tok = 0
              ELSE /\ slept = 0 /\ Count("sleep") = 0
                   /\ \E i \in (Pos("to_simulator") + 1)..Len(steps) :
                         steps[i].call = "LOG_ERROR"

\* PyUnicode_EncodeLocale(text, "surrogateescape"): the bytes of text, a
\* lone surrogate U+DC00 + b giving back the byte b
RECURSIVE EncodeLocaleFrom(_, _)
EncodeLocaleFrom(text, i) ==
    IF i > Len(text) THEN <<>>
    ELSE LET c == text[i] IN
         (IF c < 128 THEN <<c>>
          ELSE IF c \in (56320 + 128)..(56320 + 255) THEN <<c - 56320>>
          ELSE <<192 + (c \div 64), 128 + (c % 64)>>)
             \o EncodeLocaleFrom(text, i + 1)

PyUnicode_EncodeLocale(text) == EncodeLocaleFrom(text, 1)

\* C15: the list passed to the main entry has argc elements, element i the
\* surrogate-escape decoding of host argument i, from which the argument's
\* bytes are recovered; when a decoding fails the main entry is not invoked
\* and start returns -1.
C15_ArgumentVector ==
    /\ (op = "start" /\ Count("PyObject_CallFunctionObjArgs") = 1)
          => /\ mainArgs # NULL
             /\ Len(mainArgs[1]) = args.argc
             /\ \A i \in 1..args.argc :
                   /\ mainArgs[1][i] =
                          Some(PyUnicode_DecodeLocale(args.argv[i]))
                   /\ mainArgs[1][i] # NULL
                   /\ PyUnicode_EncodeLocale(mainArgs[1][i][1]) = args.argv[i]
    /\ (Returned /\ op = "start"
           /\ Count("PyUnicode_DecodeLocale") > Count("PyList_SetItem"))
          => (Count("PyObject_CallFunctionObjArgs") = 0 /\ ret = Some(-1)
              /\ mainArgs = NULL)

\* the main entry was called with two arguments, the first one a byte that
\* cannot be decoded
C15_Witness ==
    /\ Returned /\ op = "start" /\ Count("PyObject_CallFunctionObjArgs") = 1
    /\ args.argc = 2 /\ args.argv[1] = <<195>> /\ args.argv[2] = <<169, 65>>
    /\ mainArgs = Some(<<Some(<<56320 + 195>>), Some(<<56320 + 169, 65>>)>>)

\* the steps of the last call are made in the order given by cs, each once
RECURSIVE InOrder(_)
InOrder(cs) ==
    IF Len(cs) = 0 THEN TRUE
    ELSE /\ Count(cs[1]) = 1
         /\ Len(cs) > 1 => Pos(cs[1]) < Pos(cs[2])
         /\ InOrder(Tail(cs))

\* one step of C16
C16_Step ==
    (Calls("cleanup") /\ pyState = "Running")
        => /\ InOrder(<<"to_python", "Py_DecRef", "py_gpi_logger_finalize",
                        "Py_Finalize", "to_simulator">>)'
           /\ \A c \in {"Py_DecRef", "py_gpi_logger_finalize", "Py_Finalize"} :
                  (steps[Pos(c)].tok = 1)'
           /\ ~pEventFn' /\ ~logHandlers' /\ pyState' = "Finalized"
           /\ is_python_context' = 0 /\ proc' = "alive"

\* C16: a cleanup that finds the interpreter Running takes the token,
\* releases and clears the hook, finalizes the Logging Bridge, shuts the
\* runtime down and then hands the token back, in this order, the middle
\* three with the token on the interpreter side; no release is made after
\* the shutdown.
C16_CleanupOrder ==
    /\ [][C16_Step]_vars
    /\ [](Count("Py_DecRef") > 0
             => (Count("Py_Finalize") = 1
                 /\ Pos("Py_DecRef") < Pos("Py_Finalize")))

\* a cleanup that released a retained hook and shut the runtime down
C16_Witness ==
    /\ Returned /\ op = "cleanup" /\ Count("Py_Finalize") = 1
    /\ nRelease = 1 /\ mainOk

\* the last call was a notify whose hook call failed
HookFailed == Returned /\ op = "notify" /\ Count("PyErr_Print") = 1

\* one step of C17
C17_Step ==
    /\ (Calls("notify") /\ pEventFn /\ Count("PyErr_Print")' = 1)
          => /\ proc' = "alive" /\ ret' = void
             /\ Count("LOG_ERROR")' = 1
             /\ InOrder(<<"to_python", "PyObject_CallFunction", "PyErr_Print",
                          "LOG_ERROR", "PyGILState_Release", "to_simulator">>)'
             /\ is_python_context' = 0
             /\ UNCHANGED bridge
    /\ (Calls("notify") /\ (HookFailed \/ pEventFn))
          => (Len(msgs') = 1 /\ pEventFn')

\* C17: a notify whose hook call fails logs the error, releases the
\* interpreter, hands the token back and changes neither the retained hook
\* nor the interpreter state; a notify issued while the hook is retained,
\* after such a failure too, is forwarded.
C17_HookFailureLocal == [][C17_Step]_vars

\* a notify whose hook call failed has returned, the hook still retained
C17_Witness == HookFailed /\ pEventFn /\ pyState = "Running"

\* one step of C18, for a boot that gets past its assert: the level is set
\* for the six names and for nothing else, any other value is reported
\* first thing, and the boot ends as some boot with the level absent and the
\* rest of the environment the same ends
C18_Step ==
    (Calls("boot") /\ ~gtstate)
        => LET lvl == args'.COCOTB_LOG_LEVEL
               named == /\ lvl # NULL
                        /\ lvl[1] \in {"CRITICAL", "ERROR", "WARNING", "INFO",
                                       "DEBUG", "TRACE"}
           IN /\ named => (logLevel' = lvl[1]
                           /\ Count("py_gpi_logger_set_level")' = 1)
              /\ ~named => (logLevel' = logLevel
                            /\ Count("py_gpi_logger_set_level")' = 0)
              /\ (lvl # NULL /\ ~named) => steps'[1].call = "LOG_ERROR"
              /\ \E fail \in BootFails, sysExe \in SysExes, errno0 \in Errnos :
                    LET r == embed_init_python(
                                 Enter(State, "boot", NoEnv),
                                 [args' EXCEPT !.COCOTB_LOG_LEVEL = NULL],
                                 fail, sysExe, errno0)
                    IN /\ r.pyState = pyState'
                       /\ r.is_python_context = is_python_context'
                       /\ r.gtstate = gtstate'
                       /\ r.proc = proc'
                       /\ r.slept = slept'

\* C18: the logger level is set only when COCOTB_LOG_LEVEL is one of the six
\* level names; any other value is reported as an error, the level stays as
\* it was, and boot reaches the interpreter state and token state it reaches
\* with the input absent.
C18_LogLevelHarmless == [][C18_Step]_vars

\* a boot with an unknown level has booted the runtime at the default level
C18_Witness ==
    /\ Booted /\ args.COCOTB_LOG_LEVEL = Some("info")
    /\ logLevel = "default" /\ steps[1].call = "LOG_ERROR"

\* C19: a start, notify or cleanup issued while the interpreter is not
\* Running makes no call of the embedding API (the Py_IsInitialized query,
\* which is how a call learns the state, is not counted).
C19_NoApiUnlessRunning ==
    [][((Calls("start") \/ Calls("notify") \/ Calls("cleanup"))
           /\ pyState # "Running")
          => \A i \in 1..Len(steps') :
                steps'[i].call \in PyApiCalls \ {"Py_IsInitialized"}
                    => FALSE]_vars

====
